---- MODULE Spec2Model ----
(***************************************************************************)
(* The ride-request lifecycle of accept-ride: HomeScreen (the spec's       *)
(* OfferFeed, src/app/(tabs)/index.tsx) and RideRequestCard (the spec's    *)
(* RideOfferWidget, src/components/RideRequestCard.tsx).                   *)
(*                                                                         *)
(* Time is counted in units of 500 ms, the greatest common divisor of the  *)
(* two timer periods of the code (1000 ms tick, 1500 ms appear delay).     *)
(* A timer is a number of units left until it fires; time does not pass    *)
(* while a timer is due.  Every JavaScript handler runs to completion and  *)
(* React commits the render it caused before the next handler runs, so an  *)
(* action is the handler followed by Render.                               *)
(***************************************************************************)
EXTENDS Integers, Sequences, FiniteSets, TLC

\* ---------------------------------------------------------------- bounds
MaxRides == 2        \* offers generated in one run (cap on rideCounter)
MaxMounts == 2       \* HomeScreen instances mounted in one run
MaxDuration == 2     \* largest small countdown duration tried, in seconds
NonPositive == 2     \* how many durations below 1 are tried (0, -1, ...)
MaxTime == 10        \* the observation clock `now` saturates here
MaxRerenders == 1    \* re-renders of HomeScreen caused by its parent

\* ------------------------------------------------------ program constants
TickInterval == 2             \* 1000 ms, the period given to setInterval
\* Mutant: a delay of 2000 ms.
RIDE_APPEAR_DELAY_2000ms == 2 * TickInterval
RIDE_APPEAR_DELAY == 3        \* 1500 ms
DefaultDuration == 10         \* duration = 10 (seconds)
SettlingDelay == 3            \* the settling delay, 1.5 s
NoTimer == -1                 \* a cleared interval / a stopped animation

Null == [id |-> 0]            \* currentRide === null

Ids == 1..MaxRides
Durations == ((1 - NonPositive)..MaxDuration) \cup {DefaultDuration}

Min(a, b) == IF a < b THEN a ELSE b

VARIABLES
    rideCounter,     \* let rideCounter (module level: survives remounts)
    screen,          \* number of the HomeScreen instance mounted last
    screenMounted,   \* is that instance mounted
    currentRide,     \* useState<RideData | null>
    isSearching,     \* useState(true)
    timeouts,        \* pending setTimeout(showNewRide, ...) timers
    cards,           \* RideRequestCard instances, by key = ride id
    duration,        \* the duration prop given to every card
    rerenders,       \* parent-caused re-renders so far
    \* observation only (never read by the program)
    generated,       \* ids of the offers generated, in order
    fired,           \* per card: callbacks invoked, ticks seen, first tap
    now,             \* time since the start, saturating at MaxTime
    sinceOutcome,    \* time since the last outcome callback, saturating
    lastOutcome,     \* the last outcome callback: kind, card, time
    appearedAt       \* `now` when the card last mounted was mounted

vars == <<rideCounter, screen, screenMounted, currentRide, isSearching,
          timeouts, cards, duration, rerenders, generated, fired, now,
          sinceOutcome, lastOutcome, appearedAt>>

\* The whole state as one record, so that handlers are functions on it.
State ==
    [rideCounter |-> rideCounter, screen |-> screen,
     screenMounted |-> screenMounted, currentRide |-> currentRide,
     isSearching |-> isSearching, timeouts |-> timeouts, cards |-> cards,
     duration |-> duration, rerenders |-> rerenders,
     generated |-> generated, fired |-> fired, now |-> now,
     sinceOutcome |-> sinceOutcome, lastOutcome |-> lastOutcome,
     appearedAt |-> appearedAt]

\* The next state is s (bound once, so that s is computed once).
Set(s) ==
    \E n \in {s} :
        /\ rideCounter' = n.rideCounter
        /\ screen' = n.screen
        /\ screenMounted' = n.screenMounted
        /\ currentRide' = n.currentRide
        /\ isSearching' = n.isSearching
        /\ timeouts' = n.timeouts
        /\ cards' = n.cards
        /\ duration' = n.duration
        /\ rerenders' = n.rerenders
        /\ generated' = n.generated
        /\ fired' = n.fired
        /\ now' = n.now
        /\ sinceOutcome' = n.sinceOutcome
        /\ lastOutcome' = n.lastOutcome
        /\ appearedAt' = n.appearedAt

NoCard ==
    [status |-> "none", owner |-> 0, timeLeft |-> 0, interval |-> NoTimer,
     animation |-> NoTimer, animationDone |-> FALSE]

NoFired ==
    [accept |-> 0, refuse |-> 0, timeout |-> 0, ticks |-> 0,
     animationEnds |-> 0, firstTap |-> "none",
     intervalAtCall |-> "none", animationAtCall |-> "none"]

NoOutcome == [kind |-> "none", id |-> 0, at |-> 0]

\* ------------------------------------------------------------ HomeScreen

\* generateRandomRide: the id is the only field that any control flow or
\* key reads; the display fields are drawn at random and only displayed.
generateRandomRide(id) == [id |-> id]

\* Is `inst` the instance that is mounted (setState on an unmounted
\* component changes nothing).
Live(s, inst) == s.screenMounted /\ s.screen = inst

\* Mutant: the timer is set without its delay.
setTimeoutShowNewRide_noDelay(s, inst, initial) ==
    [s EXCEPT !.timeouts = Append(@, [inst |-> inst, remaining |-> 0,
                                      initial |-> initial])]

setTimeoutShowNewRide(s, inst, initial) ==
    [s EXCEPT !.timeouts = Append(@, [inst |-> inst,
                                      remaining |-> RIDE_APPEAR_DELAY,
                                      initial |-> initial])]

\* Mutant: the searching flag is left on (setIsSearching(false) forgotten).
showNewRide_keepsSearching(s, inst) ==
    LET n == s.rideCounter + 1
        newRide == generateRandomRide(n)
        s1 == [s EXCEPT !.rideCounter = n, !.generated = Append(@, newRide.id)]
    IN  IF Live(s, inst) THEN [s1 EXCEPT !.currentRide = newRide] ELSE s1

showNewRide(s, inst) ==
    LET n == s.rideCounter + 1
        newRide == generateRandomRide(n)
        s1 == [s EXCEPT !.rideCounter = n, !.generated = Append(@, newRide.id)]
    IN  IF Live(s, inst)
        THEN [s1 EXCEPT !.isSearching = FALSE, !.currentRide = newRide]
        ELSE s1

\* Mutant: the offer is not cleared (setCurrentRide(null) forgotten).
clearCurrentRideAndSearch_keepsRide(s, inst) ==
    LET s1 == IF Live(s, inst) THEN [s EXCEPT !.isSearching = TRUE] ELSE s
    IN  setTimeoutShowNewRide(s1, inst, FALSE)

\* Mutant: the next search is never scheduled (setTimeout forgotten).
clearCurrentRideAndSearch_noTimer(s, inst) ==
    IF Live(s, inst)
    THEN [s EXCEPT !.currentRide = Null, !.isSearching = TRUE]
    ELSE s

clearCurrentRideAndSearch(s, inst) ==
    LET s1 == IF Live(s, inst)
              THEN [s EXCEPT !.currentRide = Null, !.isSearching = TRUE]
              ELSE s
    IN  setTimeoutShowNewRide(s1, inst, FALSE)

\* Mutant: the accept handler starts the next search twice.
handleAccept_twice(s, inst) ==
    clearCurrentRideAndSearch(clearCurrentRideAndSearch(s, inst), inst)

handleAccept(s, inst) == clearCurrentRideAndSearch(s, inst)

handleRefuse(s, inst) == clearCurrentRideAndSearch(s, inst)

\* Mutant: the expiry clears the offer without scheduling the next search.
handleTimeout_noSearch(s, inst) ==
    IF Live(s, inst)
    THEN [s EXCEPT !.currentRide = Null, !.isSearching = TRUE]
    ELSE s

handleTimeout(s, inst) == clearCurrentRideAndSearch(s, inst)

\* What HomeScreen's JSX shows.
Rendered(s) ==
    IF ~s.screenMounted THEN "unmounted"
    ELSE IF s.currentRide # Null THEN "card"
    ELSE IF s.isSearching THEN "searching"
    ELSE "nothing"

\* ------------------------------------------------------- RideRequestCard

\* What a timer of a card is doing: its interval or its animation.
TimerState(left, done) ==
    IF left = NoTimer THEN (IF done THEN "done" ELSE "stopped")
    ELSE IF left = 0 THEN "due"
    ELSE "running"

\* The observation of one invocation of an outcome callback of card id,
\* with what the interval and the animation of the card are doing then.
Invoked(s, id, kind) ==
    [s EXCEPT !.fired[id][kind] = @ + 1,
              !.fired[id].intervalAtCall =
                  TimerState(s.cards[id].interval, FALSE),
              !.fired[id].animationAtCall =
                  TimerState(s.cards[id].animation, s.cards[id].animationDone),
              !.lastOutcome = [kind |-> kind, id |-> id, at |-> s.now],
              !.sinceOutcome = 0]

\* The props HomeScreen passes.
onAccept(s, id) == handleAccept(Invoked(s, id, "accept"), s.cards[id].owner)

onRefuse(s, id) == handleRefuse(Invoked(s, id, "refuse"), s.cards[id].owner)

onTimeout(s, id) == handleTimeout(Invoked(s, id, "timeout"), s.cards[id].owner)

clearInterval(s, id) == [s EXCEPT !.cards[id].interval = NoTimer]

stopAnimation(s, id) == [s EXCEPT !.cards[id].animation = NoTimer]

\* The effect body: setInterval(..., 1000) and Animated.timing(...).start().
useEffectStart(s, id) ==
    [s EXCEPT !.cards[id].interval = TickInterval,
              !.cards[id].animation =
                  IF s.duration > 0 THEN s.duration * TickInterval ELSE 0]

\* Mutant: the cleanup forgets clearInterval.
useEffectCleanup_keepsInterval(s, id) == stopAnimation(s, id)

\* Mutant: the cleanup forgets stopAnimation.
useEffectCleanup_keepsAnimation(s, id) == clearInterval(s, id)

\* The effect's cleanup function.
useEffectCleanup(s, id) == stopAnimation(clearInterval(s, id), id)

\* Mutant: the expiry test is off by one (prevTime <= 0).
intervalCallback_lateByOne(s, id) ==
    LET prevTime == s.cards[id].timeLeft
        s0 == [s EXCEPT !.fired[id].ticks = @ + 1]
    IN  IF prevTime <= 0
        THEN LET s1 == clearInterval(s0, id)
                 s2 == onTimeout(s1, id)
             IN  [s2 EXCEPT !.cards[id].timeLeft = 0]
        ELSE [s0 EXCEPT !.cards[id].timeLeft = prevTime - 1,
                        !.cards[id].interval = TickInterval]

\* The callback given to setInterval, with the updater given to setTimeLeft.
intervalCallback(s, id) ==
    LET prevTime == s.cards[id].timeLeft
        s0 == [s EXCEPT !.fired[id].ticks = @ + 1]
    IN  IF prevTime <= 1
        THEN LET s1 == clearInterval(s0, id)
                 s2 == onTimeout(s1, id)
             IN  [s2 EXCEPT !.cards[id].timeLeft = 0]
        ELSE [s0 EXCEPT !.cards[id].timeLeft = prevTime - 1,
                        !.cards[id].interval = TickInterval]

\* Mutant: the fallback in the callback of start() is live code.
animationEnd_callsTimeout(s, id) ==
    onTimeout([s EXCEPT !.cards[id].animation = NoTimer,
                        !.cards[id].animationDone = TRUE,
                        !.fired[id].animationEnds = @ + 1], id)

\* The callback given to start(), called with finished = true: its body is
\* a comment, so it invokes nothing.
animationEnd(s, id) ==
    [s EXCEPT !.cards[id].animation = NoTimer,
              !.cards[id].animationDone = TRUE,
              !.fired[id].animationEnds = @ + 1]

\* Mutant: the accept button forgets to stop the animation.
handlePressAccept_keepsAnimation(s, id) ==
    LET s0 == [s EXCEPT !.fired[id].firstTap =
                            IF @ = "none" THEN "accept" ELSE @]
    IN  onAccept(clearInterval(s0, id), id)

handlePressAccept(s, id) ==
    LET s0 == [s EXCEPT !.fired[id].firstTap =
                            IF @ = "none" THEN "accept" ELSE @]
    IN  onAccept(stopAnimation(clearInterval(s0, id), id), id)

\* Mutant: the close button reports an accept.
handlePressRefuse_callsAccept(s, id) ==
    LET s0 == [s EXCEPT !.fired[id].firstTap =
                            IF @ = "none" THEN "refuse" ELSE @]
    IN  onAccept(stopAnimation(clearInterval(s0, id), id), id)

handlePressRefuse(s, id) ==
    LET s0 == [s EXCEPT !.fired[id].firstTap =
                            IF @ = "none" THEN "refuse" ELSE @]
    IN  onRefuse(stopAnimation(clearInterval(s0, id), id), id)

\* ------------------------------------------------------------ React

mountCard(s, id) ==
    useEffectStart(
        [s EXCEPT !.cards[id] = [NoCard EXCEPT !.status = "mounted",
                                               !.owner = s.screen,
                                               !.timeLeft = s.duration]], id)

unmountCard(s, id) ==
    [useEffectCleanup(s, id) EXCEPT !.cards[id].status = "unmounted"]

\* The commit of HomeScreen's render: the card whose key is currentRide.id
\* is the only child; a mounted card with another key is unmounted, and a
\* key not seen before mounts a new card.
Render(s) ==
    LET wanted == IF Rendered(s) = "card" THEN {s.currentRide.id} ELSE {}
        leaving == {id \in Ids : s.cards[id].status = "mounted" /\ id \notin wanted}
        entering == {id \in wanted : id \in Ids /\ s.cards[id].status = "none"}
        newCards == [id \in Ids |->
                        IF id \in leaving THEN unmountCard(s, id).cards[id]
                        ELSE IF id \in entering THEN mountCard(s, id).cards[id]
                        ELSE s.cards[id]]
    IN  [s EXCEPT !.cards = newCards,
                  !.appearedAt = IF entering # {} THEN s.now ELSE @]

\* A re-render of HomeScreen without a state change: handleTimeout is a new
\* function, onTimeout is a dependency of the card's effect, so the effect
\* of the mounted card is cleaned up and run again.
rerunEffects(s) ==
    LET again == {id \in Ids : s.cards[id].status = "mounted"}
    IN  [s EXCEPT !.cards = [id \in Ids |->
                    IF id \in again
                    THEN useEffectStart(useEffectCleanup(s, id), id).cards[id]
                    ELSE s.cards[id]]]

clearInitialTimeout(s, inst) ==
    [s EXCEPT !.timeouts = SelectSeq(@, LAMBDA t : ~(t.inst = inst /\ t.initial))]

\* Mutant: the counter is per instance (it restarts at every mount).
mountHomeScreen_resetsCounter(s) ==
    LET s1 == [s EXCEPT !.screen = @ + 1, !.screenMounted = TRUE,
                        !.currentRide = Null, !.isSearching = TRUE,
                        !.rideCounter = 0]
    IN  setTimeoutShowNewRide(s1, s1.screen, TRUE)

mountHomeScreen(s) ==
    LET s1 == [s EXCEPT !.screen = @ + 1, !.screenMounted = TRUE,
                        !.currentRide = Null, !.isSearching = TRUE]
    IN  setTimeoutShowNewRide(s1, s1.screen, TRUE)

unmountHomeScreen(s) ==
    clearInitialTimeout([s EXCEPT !.screenMounted = FALSE], s.screen)

RemoveAt(seq, k) == [i \in 1..(Len(seq) - 1) |-> IF i < k THEN seq[i] ELSE seq[i + 1]]

\* ------------------------------------------------------------ actions

Init ==
    /\ duration \in Durations
    /\ rideCounter = 0
    /\ screen = 1
    /\ screenMounted = TRUE
    /\ currentRide = Null
    /\ isSearching = TRUE
    /\ timeouts = <<[inst |-> 1, remaining |-> RIDE_APPEAR_DELAY, initial |-> TRUE]>>
    /\ cards = [id \in Ids |-> NoCard]
    /\ rerenders = 0
    /\ generated = <<>>
    /\ fired = [id \in Ids |-> NoFired]
    /\ now = 0
    /\ sinceOutcome = SettlingDelay
    /\ lastOutcome = NoOutcome
    /\ appearedAt = 0

\* Once MaxRides offers were generated the pending showNewRide timers are
\* beyond the horizon of the model: they stay pending and time goes on.
NothingDue(s) ==
    /\ s.rideCounter < MaxRides =>
            \A k \in DOMAIN s.timeouts : s.timeouts[k].remaining > 0
    /\ \A id \in Ids : s.cards[id].interval # 0 /\ s.cards[id].animation # 0

Dec(t) == IF t > 0 THEN t - 1 ELSE t

\* 500 ms pass.
AdvanceTime ==
    /\ NothingDue(State)
    /\ Set([State EXCEPT
            !.timeouts = [k \in DOMAIN timeouts |->
                            [timeouts[k] EXCEPT !.remaining = Dec(@)]],
            !.cards = [id \in Ids |->
                            [cards[id] EXCEPT !.interval = Dec(@),
                                              !.animation = Dec(@)]],
            !.now = Min(@ + 1, MaxTime),
            !.sinceOutcome = Min(@ + 1, SettlingDelay)])

\* A setTimeout(showNewRide, RIDE_APPEAR_DELAY) timer fires.
ShowNewRide ==
    \E k \in DOMAIN timeouts :
        /\ timeouts[k].remaining = 0
        /\ rideCounter < MaxRides
        /\ Set(Render(showNewRide([State EXCEPT !.timeouts = RemoveAt(@, k)],
                                  timeouts[k].inst)))

\* The one-second interval of a card fires.
Tick ==
    \E id \in Ids :
        /\ cards[id].interval = 0
        /\ Set(Render(intervalCallback(State, id)))

\* The progress animation of a card reaches its end.
AnimationEnd ==
    \E id \in Ids :
        /\ cards[id].animation = 0
        /\ Set(Render(animationEnd(State, id)))

\* The user taps the accept button of the card on screen.
PressAccept ==
    \E id \in Ids :
        /\ cards[id].status = "mounted"
        /\ Set(Render(handlePressAccept(State, id)))

\* The user taps the close button of the card on screen.
PressRefuse ==
    \E id \in Ids :
        /\ cards[id].status = "mounted"
        /\ Set(Render(handlePressRefuse(State, id)))

\* The parent of HomeScreen re-renders it.
ParentRerender ==
    /\ screenMounted
    /\ rerenders < MaxRerenders
    /\ Set(rerunEffects(Render([State EXCEPT !.rerenders = @ + 1])))

\* HomeScreen is unmounted (with the card it shows).
UnmountHomeScreen ==
    /\ screenMounted
    /\ Set(Render(unmountHomeScreen(State)))

\* HomeScreen is mounted again: a new instance.
MountHomeScreen ==
    /\ ~screenMounted
    /\ screen < MaxMounts
    /\ Set(Render(mountHomeScreen(State)))

Next ==
    \/ AdvanceTime
    \/ ShowNewRide
    \/ Tick
    \/ AnimationEnd
    \/ PressAccept
    \/ PressRefuse
    \/ ParentRerender
    \/ UnmountHomeScreen
    \/ MountHomeScreen

Spec == Init /\ [][Next]_vars

\* HomeScreen stays mounted.  The event loop goes on: a timer that is due
\* fires, and otherwise time passes.  Taps and re-renders by the parent
\* are up to the environment.
LiveNext ==
    \/ AdvanceTime
    \/ ShowNewRide
    \/ Tick
    \/ AnimationEnd
    \/ PressAccept
    \/ PressRefuse
    \/ ParentRerender

LiveSpec ==
    /\ Init
    /\ [][LiveNext]_vars
    /\ WF_vars(AdvanceTime \/ ShowNewRide \/ Tick \/ AnimationEnd)

\* ------------------------------------------------------------ claims

Outcomes(id) == fired[id].accept + fired[id].refuse + fired[id].timeout

MountedCards == {id \in Ids : cards[id].status = "mounted"}

\* C1: for every card the three outcome callbacks (onAccept, onRefuse,
\* onTimeout) are invoked at most once in total, whatever the interleaving
\* of ticks, taps and unmounts; a card that has fired one fires no other.
C1_AtMostOneOutcome == \A id \in Ids : Outcomes(id) <= 1

\* Both offers ended, one by a tap and one by expiry, each with one callback.
C1_Witness ==
    /\ fired[1].accept = 1 /\ Outcomes(1) = 1
    /\ fired[2].timeout = 1 /\ Outcomes(2) = 1

\* C2: for a duration D >= 1 a card that is neither tapped nor unmounted by
\* its owner has its interval running, fires onTimeout on its D-th tick,
\* not on an earlier one, sees no tick after it, and fires it once.
C2_ExpiresOnTickD ==
    duration >= 1 =>
        \A id \in Ids :
            /\ fired[id].ticks <= duration
            /\ fired[id].timeout = (IF fired[id].ticks = duration THEN 1 ELSE 0)
            /\ cards[id].status = "mounted" =>
                   /\ cards[id].interval \in 0..TickInterval
                   /\ cards[id].timeLeft = duration - fired[id].ticks

\* A card of the default duration expired on its tenth tick, untouched.
C2_Witness ==
    /\ duration = DefaultDuration
    /\ fired[1].ticks = DefaultDuration
    /\ fired[1].timeout = 1
    /\ fired[1].firstTap = "none"

\* C3: once a card was tapped, the callback of the first tap has fired
\* once and no other callback has, and from then on no tick changes its
\* remaining time and nothing more is invoked for it.
C3_FirstTapWins ==
    [][\A id \in Ids :
          fired'[id].firstTap # "none" =>
              /\ fired'[id].accept = (IF fired'[id].firstTap = "accept" THEN 1 ELSE 0)
              /\ fired'[id].refuse = (IF fired'[id].firstTap = "refuse" THEN 1 ELSE 0)
              /\ fired'[id].timeout = 0
              /\ cards'[id].interval = NoTimer
              /\ fired[id].firstTap # "none" =>
                     /\ fired'[id] = fired[id]
                     /\ cards'[id] = cards[id]]_vars

\* The first offer was refused with time left, and the second is counting.
C3_Witness ==
    /\ fired[1].firstTap = "refuse" /\ fired[1].refuse = 1
    /\ cards[1].timeLeft > 0
    /\ cards[2].status = "mounted" /\ fired[2].ticks > 0

\* C4: an unmounted card has neither its interval nor its animation active,
\* and nothing of it changes any more: no callback, no tick, no remaining
\* time; a card unmounted before any outcome never fires a callback.
C4_UnmountedIsFrozen ==
    [][\A id \in Ids :
          /\ cards'[id].status = "unmounted" =>
                 cards'[id].interval = NoTimer /\ cards'[id].animation = NoTimer
          /\ cards[id].status = "unmounted" =>
                 cards'[id] = cards[id] /\ fired'[id] = fired[id]]_vars

\* A card was unmounted with its HomeScreen in mid-countdown, without an
\* outcome, and time has passed since.
C4_Witness ==
    /\ cards[1].status = "unmounted" /\ Outcomes(1) = 0
    /\ cards[1].timeLeft > 0 /\ fired[1].ticks > 0
    /\ cards[2].status = "mounted" /\ fired[2].ticks > 0

\* C5: while an offer is rendered, at least the settling delay (1.5 s) has
\* passed since the most recent outcome callback.
C5_SettlingDelay ==
    Rendered(State) = "card" => sinceOutcome >= SettlingDelay

\* The second offer is on screen after the first one timed out.
C5_Witness ==
    /\ Rendered(State) = "card" /\ currentRide.id = 2
    /\ lastOutcome.kind = "timeout" /\ lastOutcome.id = 1
    /\ lastOutcome.at < MaxTime /\ appearedAt = lastOutcome.at + SettlingDelay

\* C6: the identifiers of the generated offers are strictly increasing in
\* the order of generation, also across unmount and remount of HomeScreen.
C6_IdsIncrease ==
    \A i, j \in DOMAIN generated : i < j => generated[i] < generated[j]

\* Two offers were generated, by two different HomeScreen instances.
C6_Witness ==
    /\ Len(generated) = 2
    /\ cards[generated[1]].owner = 1
    /\ cards[generated[2]].owner = 2

\* C7: at most one card is mounted, and a card whose interval or animation
\* is active is the mounted card of the offer that HomeScreen displays.
C7_OneLiveOffer ==
    /\ Cardinality(MountedCards) <= 1
    /\ \A id \in Ids :
          (cards[id].interval # NoTimer \/ cards[id].animation # NoTimer) =>
              /\ cards[id].status = "mounted"
              /\ Rendered(State) = "card"
              /\ currentRide.id = id

\* The second offer is counting down while the first one is gone.
C7_Witness ==
    /\ cards[1].status = "unmounted"
    /\ cards[2].status = "mounted" /\ cards[2].interval # NoTimer
    /\ fired[2].ticks > 0

\* The first HomeScreen instance has been mounted since time 0.
FirstScreen == screen = 1 /\ screenMounted

DeclinedAt3s == lastOutcome = [kind |-> "refuse", id |-> 1, at |-> 6]

\* C8: HomeScreen mounted at t=0 shows no offer before t=1.5 s and exactly
\* one from then on; if that offer is declined at t=3 s, the searching
\* indicator is shown and no card is mounted from that step until t=4.5 s,
\* and the offer that then appears, at t=4.5 s, has another identifier.
C8_EndToEnd ==
    FirstScreen =>
        /\ now < 3 => Rendered(State) # "card" /\ MountedCards = {}
        /\ (now > 3 /\ lastOutcome = NoOutcome) =>
               /\ Rendered(State) = "card"
               /\ MountedCards = {currentRide.id}
               /\ appearedAt = 3
        /\ DeclinedAt3s =>
               /\ cards[1].status = "unmounted"
               /\ now < 9 => Rendered(State) = "searching" /\ MountedCards = {}
               /\ now > 9 => Rendered(State) = "card"
               /\ Rendered(State) = "card" =>
                      /\ currentRide.id # 1
                      /\ MountedCards = {currentRide.id}
                      /\ appearedAt = 9

\* The offer after the decline at t=3 s is on screen, some time after 4.5 s.
C8_Witness ==
    /\ FirstScreen /\ DeclinedAt3s
    /\ now > 9 /\ Rendered(State) = "card" /\ currentRide.id = 2
    /\ appearedAt = 9

\* The instance on screen has not generated its first offer yet.
BeforeFirstOffer ==
    /\ screenMounted
    /\ \E k \in DOMAIN timeouts : timeouts[k].inst = screen /\ timeouts[k].initial

\* C9: from the mount of HomeScreen until its first offer nothing is
\* rendered, neither a card nor the searching indicator.
C9_NothingBeforeFirstOffer ==
    BeforeFirstOffer => Rendered(State) = "nothing"

IdleSearching == screenMounted /\ currentRide = Null

OfferPending == screenMounted /\ currentRide # Null

\* C10: while HomeScreen stays mounted, and as long as the model may still
\* generate an offer, Idle-Searching leads to Offer-Pending with an offer
\* not generated before, and Offer-Pending leads to Idle-Searching (by
\* expiry if the user never taps): the loop does not stop.
C10_LoopNeverStops ==
    /\ \A n \in 0..(MaxRides - 1) :
          (IdleSearching /\ rideCounter = n)
              ~> (OfferPending /\ currentRide.id = n + 1)
    /\ \A id \in Ids :
          (OfferPending /\ currentRide.id = id)
              ~> (IdleSearching /\ Outcomes(id) = 1)

\* The second offer expired untouched and HomeScreen is searching again.
C10_Witness ==
    /\ IdleSearching /\ screen = 1
    /\ fired[1].timeout = 1 /\ fired[2].timeout = 1
    /\ duration = DefaultDuration

\* An outcome callback of card id is invoked in this step.
OutcomeStep(id) ==
    fired'[id].accept + fired'[id].refuse + fired'[id].timeout > Outcomes(id)

\* C11: accept, decline and expiry of the pending offer have the same
\* effect on HomeScreen, in the step of the outcome: currentRide becomes
\* null, isSearching true, one timer for showNewRide is added with the full
\* delay of 1.5 s, and rideCounter keeps its value.
C11_OutcomeEffect ==
    [][\A id \in Ids :
          (OutcomeStep(id) /\ OfferPending /\ currentRide.id = id) =>
              /\ currentRide' = Null
              /\ isSearching'
              /\ timeouts' = Append(timeouts, [inst |-> screen,
                                               remaining |-> SettlingDelay,
                                               initial |-> FALSE])
              /\ rideCounter' = rideCounter
              /\ generated' = generated]_vars

\* Each of the three outcomes has happened to an offer of the first screen.
C11_Witness ==
    /\ screen = 1 /\ IdleSearching
    /\ fired[1].timeout = 1
    /\ fired[2].accept = 1 \/ fired[2].refuse = 1
    /\ Len(timeouts) = 1

\* C12 as stated: whenever an outcome callback has been invoked, neither
\* the interval nor the animation of its card was running at the call.
C12_BothCancelledBeforeCallback ==
    \A id \in Ids :
        Outcomes(id) > 0 =>
            /\ fired[id].intervalAtCall = "stopped"
            /\ fired[id].animationAtCall \in {"stopped", "done"}

\* C12 amended: the interval is cancelled before every outcome callback;
\* the animation is not running (stopped, or already at its end) when
\* onAccept or onRefuse is invoked, and after onTimeout it is no longer
\* active once the step is over (the cleanup of the unmount stops it).
C12_CancelledOnExit ==
    \A id \in Ids :
        Outcomes(id) > 0 =>
            /\ fired[id].intervalAtCall = "stopped"
            /\ fired[id].timeout = 0 =>
                   fired[id].animationAtCall \in {"stopped", "done"}
            /\ cards[id].interval = NoTimer
            /\ cards[id].animation = NoTimer

\* An offer expired while its animation was still running, and another
\* was ended by a tap.
C12_Witness ==
    /\ fired[1].timeout = 1 /\ fired[1].animationAtCall = "running"
    /\ fired[2].firstTap # "none" /\ Outcomes(2) = 1

\* C13 as stated: the remaining time of a card starts at the configured
\* duration, stays within 0..duration, never increases, and a tick takes
\* exactly one from it or sets it to 0; the card of a new offer starts
\* again at the full duration.
C13_RemainingTime ==
    [][\A id \in Ids :
          /\ cards'[id].status # "none" => cards'[id].timeLeft \in 0..duration
          /\ (cards[id].status = "none" /\ cards'[id].status = "mounted") =>
                 cards'[id].timeLeft = duration
          /\ cards[id].status # "none" =>
                 /\ cards'[id].timeLeft <= cards[id].timeLeft
                 /\ fired'[id].ticks = fired[id].ticks =>
                        cards'[id].timeLeft = cards[id].timeLeft
                 /\ fired'[id].ticks # fired[id].ticks =>
                        \/ cards'[id].timeLeft = cards[id].timeLeft - 1
                        \/ cards'[id].timeLeft = 0]_vars

\* C14 as stated, for durations of at least 1: the animation of a card
\* that expires is at its end at the moment of the expiry, and an
\* animation that ended on a mounted card ended at the moment of the tick
\* that brings the remaining time to 0.
C14_ReachZeroTogether ==
    duration >= 1 =>
        \A id \in Ids :
            /\ fired[id].timeout = 1 =>
                   fired[id].animationAtCall \in {"due", "done"}
            /\ (cards[id].animationDone /\ cards[id].status = "mounted") =>
                   cards[id].interval = 0 /\ cards[id].timeLeft <= 1

\* C15 as stated: the remaining time is never negative, and a card of a
\* duration below 1 starts like one of duration 1.
C15_ClampedToOne ==
    \A id \in Ids :
        cards[id].status # "none" =>
            /\ cards[id].timeLeft >= 0
            /\ (duration < 1 /\ fired[id].ticks = 0) => cards[id].timeLeft = 1

TimersOf(i) == {k \in DOMAIN timeouts : timeouts[k].inst = i}

C19_UnmountCancelsTimers ==
    \A k \in DOMAIN timeouts : Live(State, timeouts[k].inst)

====
